---------------------------- MODULE Spec2Model ----------------------------
(***************************************************************************)
(* A model of the per-chat conversation manager of mr_gpt_ai_bot:          *)
(*   - the per-chat serializer of src/bot.py (__create_callback.handler),  *)
(*     run on asyncio's single-threaded event loop;                        *)
(*   - ChatManager of src/chat.py: handle_message, the completion cycle    *)
(*     __complete with its throttled message edits, conversation creation  *)
(*     and the expiry timer.                                               *)
(***************************************************************************)
EXTENDS Integers, Sequences, FiniteSets, TLC

(***************************************************************************)
(* Bounds of the model.                                                    *)
(***************************************************************************)
\* updates of allowed chats delivered to the serializer in one run
MaxUpdates == 4
\* SpecComplete, one completion cycle: the snapshots the generator yields
\* and the reading at which the event loop's clock stops
MaxSnapshots == 5
MaxTime == 6
\* SpecChat, a sequence of operations on one chat: the handle_message calls
\* and the snapshots yielded over all their cycles (its clock runs for one
\* throttle interval)
MaxCalls == 2
ChatSnapshots == 2
\* SpecOps, every operation on the conversations of one chat (MaxCalls of
\* them): the snapshots yielded over all their cycles
OpsSnapshots == 1
\* SpecModes, the operations on the modes of one chat
MaxModeOps == 4
\* SpecChain, the chain of one chat under fair scheduling: the updates
LiveUpdates == 2

(***************************************************************************)
(* Program constants.                                                      *)
(***************************************************************************)
\* chat ids that may send updates; AllowedChatIds models options.allowed_chat_ids
ChatIds == {1, 2}
AllowedChatIds == {1}
\* the values of options.conversation_timeout (int|None): <<>> is None
Timeouts == {<<>>, <<0>>, <<30>>}
\* the same with a negative number, which the type (int) admits
SignedTimeouts == Timeouts \cup {<<-30>>}
\* src/chat.py 357: the least interval between two intermediate edits
THROTTLE == 2

VARIABLES
  \* ---- serializer (src/bot.py) ----
  chat_tasks,   \* chat id -> id of the task stored for it, 0 when the key is absent
  tasks,        \* the operations submitted so far, by arrival: task and handler state
  ready,        \* asyncio's FIFO queue of callbacks ready to run
  \* ---- chat manager (src/chat.py), one chat ----
  conversation_timeout,  \* ChatManager.__conversation_timeout
  all_conversations,     \* ChatData.conversations: id -> [id, messages]
  current_conversation,  \* ChatState.current_conversation: an id, -1 for None
  timeout_task,          \* ChatState.timeout_task: a timer id, 0 for None
  timers,                \* the timer tasks asleep in asyncio.sleep (line 410)
  shown,                 \* the bot's messages as the chat shows them: id -> [text, markup]
  lastId,                \* the last message id the chat has given out
  inflight,              \* edit_message_text requests sent and not yet answered
  call,                  \* the frame of the operation in progress
  gen,                   \* the generator of the cycle in progress
  now,                   \* asyncio.get_running_loop().time()
  \* ---- history ----
  editLog,               \* the edits the current cycle issued on its placeholder
  stats,                 \* per conversation: handle_message calls on it, and those replied to
  outcome,               \* how the last operation ended, and the calls made so far
  yielded,               \* snapshots yielded so far in the run
  budget,                \* the run's workload: calls, snapshots, clock readings
  opLog,                 \* the operation in progress (or last run) and the state it found
  \* ---- modes (src/chat.py, ChatData and ChatState) ----
  modes,                 \* ChatData.modes: mode id -> [title, prompt]
  current_mode_id,       \* ChatData.current_mode_id: a mode id, 0 for None
  new_mode_title,        \* ChatState.new_mode_title: <<>> for None
  editing_mode,          \* ChatState.editing_mode: a mode id, 0 for None
  modeLog                \* history: the mode ids given out and those deleted

serVars == <<chat_tasks, tasks, ready>>
chatVars == <<conversation_timeout, all_conversations, current_conversation,
              timeout_task, timers, shown, lastId, inflight, call, gen, now,
              editLog, stats, outcome, yielded, budget, opLog, modes,
              current_mode_id, new_mode_title, editing_mode, modeLog>>
modeVars == <<modes, current_mode_id, new_mode_title, editing_mode, modeLog>>
vars == <<chat_tasks, tasks, ready, conversation_timeout, all_conversations,
          current_conversation, timeout_task, timers, shown, lastId, inflight,
          call, gen, now, editLog, stats, outcome, yielded, budget, opLog,
          modes, current_mode_id, new_mode_title, editing_mode, modeLog>>

(***************************************************************************)
(* The serializer: __create_callback.handler, src/bot.py 232-257.          *)
(*                                                                         *)
(* A task record:                                                          *)
(*   chat     the chat id of the update                                    *)
(*   prev     current_task captured at line 243 (0: None)                  *)
(*   task     "created"  task() scheduled, its first step not yet run      *)
(*            "waiting"  suspended in `await current_task` (line 247)      *)
(*            "running"  inside invoke (line 250), suspended at I/O        *)
(*            "ok"/"err" finished: returned / raised                       *)
(*   io       outcome of the external call the running task waits for    *)
(*   handler  "awaiting" suspended at line 253                             *)
(*            "returned" line 257 reached; "raised" the await re-raised    *)
(*   logged   the previous task's exception was caught at line 248         *)
(*   unfinishedAtSubmit, unfinishedAtStart: history, the earlier tasks of  *)
(*            the same chat not finished when this one arrived / started   *)
(***************************************************************************)
TaskIds == 1..Len(tasks)

TaskDone(t) == tasks[t].task \in {"ok", "err"}

Unfinished(c) == {t \in TaskIds : tasks[t].chat = c /\ ~TaskDone(t)}

SerializerIdle ==
  /\ chat_tasks = [c \in ChatIds |-> 0]
  /\ tasks = <<>>
  /\ ready = <<>>

\* lines 232-253: an update for an allowed chat reaches the handler, which
\* captures the stored task, creates its own, stores it and awaits it.
Submit(c) ==
  /\ Len(tasks) < MaxUpdates
  /\ c \in AllowedChatIds
  /\ LET id == Len(tasks) + 1 IN
       /\ tasks' = Append(tasks, [chat |-> c, prev |-> chat_tasks[c],
                                  task |-> "created", handler |-> "awaiting",
                                  io |-> "pending", logged |-> FALSE,
                                  unfinishedAtSubmit |-> Unfinished(c),
                                  unfinishedAtStart |-> {}])
       /\ chat_tasks' = [chat_tasks EXCEPT ![c] = id]
       /\ ready' = Append(ready, <<"step", id>>)
  /\ UNCHANGED chatVars

\* lines 239-241: an update of a chat outside allowed_chat_ids is dropped.
Ignore(c) ==
  /\ c \notin AllowedChatIds
  /\ UNCHANGED <<chat_tasks, tasks, ready>>
  /\ UNCHANGED chatVars

\* The tasks suspended in `await current_task` (line 247) on task t, in the
\* order they registered.
RECURSIVE WakeUps(_)
WakeUps(S) ==
  IF S = {} THEN <<>>
  ELSE LET m == CHOOSE x \in S : \A y \in S : x <= y
       IN <<<<"wake", m>>>> \o WakeUps(S \ {m})

Waiters(t) ==
  WakeUps({w \in TaskIds : tasks[w].prev = t /\ tasks[w].task = "waiting"})

\* The task of t is done: the loop schedules its done-callbacks in the order
\* they registered, the handler that awaits it (line 253) first, then the
\* task chained behind it (line 247).
Done(t, queue) == queue \o <<<<"handler", t>>>> \o Waiters(t)

\* line 250: the task enters invoke (lines 220-230). The callback either
\* suspends at its first external call, or ends without suspending.
StartBody(t, tk, body) ==
  /\ tasks' = [tk EXCEPT ![t].task = body,
                         ![t].unfinishedAtStart = Unfinished(tk[t].chat) \ {t}]
  /\ ready' = IF body = "running" THEN Tail(ready) ELSE Done(t, Tail(ready))

\* lines 244-250, the first step of task(): with no previous task, or one that
\* is already done (its exception, if any, caught at 248), invoke starts at
\* once; otherwise the task suspends on the previous one.
TaskStep(t) ==
  LET p == tasks[t].prev IN
    IF p = 0
      THEN \E body \in {"running", "ok", "err"} : StartBody(t, tasks, body)
      ELSE IF TaskDone(p)
             THEN \E body \in {"running", "ok", "err"} :
                    StartBody(t, [tasks EXCEPT ![t].logged = (tasks[p].task = "err")], body)
             ELSE /\ tasks' = [tasks EXCEPT ![t].task = "waiting"]
                  /\ ready' = Tail(ready)

\* lines 246-250: the previous task finished; its exception is logged, not
\* raised, and invoke starts.
TaskWake(t) ==
  LET p == tasks[t].prev IN
    \E body \in {"running", "ok", "err"} :
      StartBody(t, [tasks EXCEPT ![t].logged = (tasks[p].task = "err")], body)

\* invoke ends after its last external call, returning or raising.
TaskResume(t) ==
  /\ tasks' = [tasks EXCEPT ![t].task = tasks[t].io]
  /\ ready' = Done(t, Tail(ready))

\* line 253 re-raises the task's exception: lines 254-257 are skipped.
HandlerRaise(t) ==
  /\ tasks' = [tasks EXCEPT ![t].handler = "raised"]
  /\ UNCHANGED chat_tasks

\* lines 253-257 after the handler's own task returned: the chat's key is
\* deleted whatever task it holds.
HandlerReturn(t) ==
  /\ tasks' = [tasks EXCEPT ![t].handler = "returned"]
  /\ chat_tasks' = [chat_tasks EXCEPT ![tasks[t].chat] = 0]

HandlerWake(t) ==
  /\ IF tasks[t].task = "err" THEN HandlerRaise(t) ELSE HandlerReturn(t)
  /\ ready' = Tail(ready)

\* The event loop runs the callback at the head of its ready queue.
RunReady ==
  /\ ready # <<>>
  /\ LET kind == Head(ready)[1]
         t == Head(ready)[2] IN
       \/ kind = "step" /\ TaskStep(t) /\ UNCHANGED chat_tasks
       \/ kind = "wake" /\ TaskWake(t) /\ UNCHANGED chat_tasks
       \/ kind = "resume" /\ TaskResume(t) /\ UNCHANGED chat_tasks
       \/ kind = "handler" /\ HandlerWake(t)
  /\ UNCHANGED chatVars

\* The external call a running task is suspended on completes: the loop
\* queues the task's resumption, after which invoke returns or raises.
IoDone(t, result) ==
  /\ t \in TaskIds
  /\ tasks[t].task = "running"
  /\ tasks[t].io = "pending"
  /\ tasks' = [tasks EXCEPT ![t].io = result]
  /\ ready' = Append(ready, <<"resume", t>>)
  /\ UNCHANGED chat_tasks
  /\ UNCHANGED chatVars

(***************************************************************************)
(* Texts. A text is a sequence of pieces; appending to a text appends      *)
(* pieces, so that a text with the continuation marker differs from the    *)
(* text without it and ends in the marker.                                 *)
(***************************************************************************)
\* line 123
GENERATING_RESPONSE == <<"Generating response...">>
\* line 361: '\n\nGenerating...'
MARKER == "Generating..."
WithMarker(text) == Append(text, MARKER)
\* line 369 and line 373
TIMED_OUT == <<"Generation timed out.">>
ERROR_GENERATING == <<"Error generating response">>
\* lines 368 and 372: the 'Retry' button; line 431: the resume button; an
\* edit without reply_markup leaves the message without buttons
NoMarkup == <<>>
RetryMarkup == <<"Retry", "/retry">>
ResumeMarkup(id) == <<"Resume this conversation", "/resume_" \o ToString(id)>>
\* line 430
ExpiredText(content, title) ==
  content \o <<"This conversation has expired and it was about", title,
               "A new conversation has started.">>
\* the text the user sent
USER_TEXT == <<"user text">>
\* retry_last_message, lines 171, 174 and 180
NO_CONVERSATION_TO_RETRY == <<"No conversation to retry">>
REGENERATING_RESPONSE == <<"Regenerating response...">>
NO_MESSAGE_TO_RETRY == <<"No message to retry">>
\* resume, line 189 and lines 192-194
NOT_FOUND == <<"Failed to find that conversation. Try sending a new message.">>
ResumingText(title, mode_title) == <<"Resuming conversation", title>> \o mode_title
\* new_conversation, lines 87-93
StartedText(mode_title) == <<"Started a new conversation">> \o mode_title
ChangeModeMarkup == <<"Change mode", "/mode">>
\* handle_audio, lines 141, 144, 149/156 and 159
SPEECH_UNAVAILABLE == <<"Speech recognition is not available for this chat.">>
RECOGNIZING_AUDIO == <<"Recognizing audio...">>
COULD_NOT_RECOGNIZE == <<"Could not recognize audio">>
YouSaidText(text) == <<"You said:">> \o text
\* the titles and the prompts the user enters for modes
ModeTitles == {"A", "B"}
ModePrompts == {"p", "q"}
\* list_modes_for_selection, lines 241-245
CurrentModeText(title) == <<"Current mode", title, "Change to mode:">>
SELECT_A_MODE == <<"Select a mode:">>
NO_MODES == <<"No modes available. Tap Add to create a new mode.">>
\* select_mode, lines 255, 260 and 265
CLEARED_MODE == <<"Cleared mode.">>
MODE_NOT_FOUND == <<"Failed to find that mode. Try sending a new message.">>
ChangedModeText(title) == <<"Changed mode to", title>>
\* __mode_enter_title, src/bot.py line 175
ENTER_PROMPT == <<"Enter a prompt for the new mode:">>
\* __mode_add_cancel, src/bot.py line 190
MODE_CANCELLED == <<"Mode creation cancelled.">>
\* add_or_edit_mode, lines 280 and 293
MODE_UPDATED == <<"Mode updated.">>
MODE_ADDED == <<"Mode added.">>
\* edit_mode and delete_mode, lines 322, 327, 333 and 338
INVALID_MODE == <<"Invalid mode.">>
EnterNewPromptText(title) == <<"Enter a new prompt for mode", title>>
ModeDeletedText(title) == <<"Mode deleted", title>>

(***************************************************************************)
(* The generative backend (GPTClient, not part of the sources): its        *)
(* contract is taken from the specification, sections 3, 4.3 and 6.        *)
(***************************************************************************)
\* the cumulative content of the k-th snapshot of a stream
Content(k) == [i \in 1..k |-> "chunk"]

\* newConversation(existingCount, firstUserMessage):
\* Conversation{id, title, messages: [firstUserMessage]}
GptNewConversation(id, user_message) ==
  [id |-> id, title |-> "title " \o ToString(id), messages |-> <<user_message>>]

\* complete(...) yields its k-th snapshot: the first one appends the live
\* assistant message (its id the placeholder's) to the conversation, a
\* later one replaces its content in place.
GptSnapshot(messages, k, sent_message_id) ==
  IF k = 1
    THEN Append(messages, [role |-> "assistant", id |-> sent_message_id,
                           content |-> Content(1)])
    ELSE [messages EXCEPT ![Len(messages)].content = Content(k)]

(***************************************************************************)
(* The chat manager: ChatManager, src/chat.py.                             *)
(***************************************************************************)
\* ChatState() as constructed (lines 26-31), None for a conversation / a task
NoConversation == -1
NoTask == 0
\* a task handle whose task is done
DoneTask == -1

\* `if not timeout` (line 406): None and 0 are falsy
Truthy(timeout) == timeout # <<>> /\ timeout[1] # 0

\* Conversation.last_message
LastMessage(c) ==
  LET ms == all_conversations[c].messages
  IN IF ms = <<>> THEN <<>> ELSE <<ms[Len(ms)]>>

\* the frame of an operation: its position and its locals
\*   pc  "idle"    no operation in progress
\*       "reply"   handle_message awaits reply_text (line 120)
\*       "stream"  __complete awaits the generator's next item (line 350)
\*       "final"   __complete awaits the final edit (line 364)
\*       "notice"  __complete awaits the edit of an error notice (369, 373)
\*       "retry_none"       retry_last_message awaits send_message (171)
\*       "retry_send"       retry_last_message awaits send_message (174)
\*       "retry_edit"       retry_last_message awaits edit_message_text (180)
\*       "resume_notfound"  resume awaits send_message (189)
\*       "resume_send"      resume awaits send_message (195)
\*       "resume_edit"      resume awaits edit_message_text (199)
\*       "expire_edit"      new_conversation awaits the edit of line 432
\*       "announce"         new_conversation awaits send_message (94)
\*       "audio_unavailable" handle_audio awaits send_message (141)
\*       "audio_send"       handle_audio awaits send_message (144)
\*       "recognize"        handle_audio awaits speech_to_text (147)
\*       "audio_failed"     handle_audio awaits the edit of line 149 or 156
\*       "audio_said"       handle_audio awaits the edit of line 159
IdleCall ==
  [pc |-> "idle", user_message_id |-> 0, sent_message_id |-> 0,
   conversation |-> NoConversation, final_message |-> <<>>,
   last_update_task |-> NoTask, last_update_time |-> 0, awaiting |-> NoTask]

\* the generator of a cycle: snapshots yielded, when the last one came,
\* whether every snapshot came less than THROTTLE after the one before, and
\* how the stream ended ("no": it has not)
FreshGen == [snaps |-> 0, lastAt |-> 0, close |-> TRUE, ended |-> "no"]

\* history: operation `op` begins, on conversation id `target` (the id
\* resume is given, the current conversation of the others), which has `len`
\* messages (-1: it is not stored), the last one of role `last`
Began(op, target) ==
  IF target \in DOMAIN all_conversations
    THEN LET ms == all_conversations[target].messages
         IN [op |-> op, target |-> target, len |-> Len(ms),
             last |-> IF ms = <<>> THEN "none" ELSE ms[Len(ms)].role]
    ELSE [op |-> op, target |-> target, len |-> -1, last |-> "none"]

NoOp == [op |-> "none", target |-> NoConversation, len |-> -1, last |-> "none"]

\* ChatData without modes (lines 46-49, 53) and ChatState() (lines 30-31)
NoMode == 0
ModesFresh ==
  /\ modes = <<>>
  /\ current_mode_id = NoMode
  /\ new_mode_title = <<>>
  /\ editing_mode = NoMode
  /\ modeLog = [made |-> 0, deleted |-> {}]

ChatFresh ==
  /\ all_conversations = <<>>
  /\ current_conversation = NoConversation
  /\ timeout_task = NoTask
  /\ timers = {}
  /\ shown = <<>>
  /\ lastId = 0
  /\ inflight = {}
  /\ call = IdleCall
  /\ gen = FreshGen
  /\ now = 0
  /\ editLog = <<>>
  /\ stats = <<>>
  /\ outcome = [calls |-> 0, result |-> "none", sent |-> 0,
                conversation |-> NoConversation]
  /\ yielded = 0
  /\ opLog = NoOp
  /\ ModesFresh

\* a handle for a new task: the least one no live task of the set uses
FreshId(used) == CHOOSE n \in 1..(Cardinality(used) + 1) : n \notin used

EditIds == {e.id : e \in inflight}

\* bot.edit_message_text(chat_id, message_id, text, reply_markup) is sent
Issue(id, msg, text, markup, kind) ==
  [id |-> id, msg |-> msg, text |-> text, markup |-> markup, kind |-> kind]

\* an intermediate edit of message m is in flight
Busy(m) == \E e \in inflight : e.msg = m /\ e.kind = "partial"

Logged(kind, text, snap) ==
  Append(editLog, [kind |-> kind, text |-> text, at |-> now, snap |-> snap,
                   busy |-> Busy(call.sent_message_id)])

\* an arming that forgets to cancel the stored task: C15_OneLiveTimer tells
\* it from the code's
AddTimeoutTaskNoCancel ==
  IF ~Truthy(conversation_timeout)
    THEN /\ timers' = timers
         /\ timeout_task' = NoTask
    ELSE /\ timers' = timers \cup {FreshId(timers)}
         /\ timeout_task' = FreshId(timers)

\* __add_timeout_task, lines 398-415: the stored task is cancelled, and a new
\* one (a handle no timer task has, the cancelled one included) is created
\* only for a truthy timeout.
AddTimeoutTask ==
  LET live == timers \ {timeout_task}
  IN IF ~Truthy(conversation_timeout)
       THEN /\ timers' = live
            /\ timeout_task' = NoTask
       ELSE /\ timers' = live \cup {FreshId(timers)}
            /\ timeout_task' = FreshId(timers)

\* a __create_conversation that drops the user message of a conversation it
\* creates: C10_TwoMessagesPerReply tells it from the code's
CreateConversationEmpty(user_message) ==
  IF current_conversation # NoConversation
    THEN [conversations |->
            [all_conversations EXCEPT ![current_conversation].messages = Append(@, user_message)],
          id |-> current_conversation]
    ELSE LET id == Cardinality(DOMAIN all_conversations)
         IN [conversations |->
               all_conversations @@
                 (id :> [GptNewConversation(id, user_message) EXCEPT !.messages = <<>>]),
             id |-> id]

\* a __create_conversation that gives a new conversation the id of the one
\* stored last: C20_ConversationIds tells it from the code's
CreateConversationLastId(user_message) ==
  IF current_conversation # NoConversation
    THEN [conversations |->
            [all_conversations EXCEPT ![current_conversation].messages = Append(@, user_message)],
          id |-> current_conversation]
    ELSE LET n == Cardinality(DOMAIN all_conversations)
             id == IF n = 0 THEN 0 ELSE n - 1
         IN [conversations |->
               [c \in DOMAIN all_conversations \cup {id} |->
                  IF c = id THEN GptNewConversation(id, user_message)
                            ELSE all_conversations[c]],
             id |-> id]

\* __create_conversation, lines 436-446: the conversations after the call
\* and the id of the conversation returned.
CreateConversation(user_message) ==
  IF current_conversation # NoConversation
    THEN [conversations |->
            [all_conversations EXCEPT ![current_conversation].messages = Append(@, user_message)],
          id |-> current_conversation]
    ELSE LET id == Cardinality(DOMAIN all_conversations)
         IN [conversations |-> all_conversations @@ (id :> GptNewConversation(id, user_message)),
             id |-> id]

\* handle_message, lines 128-132
StoreUserMessage(user_message) ==
  IF current_conversation # NoConversation
    THEN [conversations |->
            [all_conversations EXCEPT ![current_conversation].messages = Append(@, user_message)],
          id |-> current_conversation]
    ELSE CreateConversation(user_message)

\* a throttle without the interval: C7_Throttle tells it from the code's
ThrottleIgnoresInterval(frame, t) == frame.last_update_task \in {NoTask, DoneTask}

\* __complete, lines 353-358: an intermediate edit is issued unless the last
\* one is still in flight or less than THROTTLE has passed since the last.
ThrottleAllows(frame, t) ==
  /\ frame.last_update_task \in {NoTask, DoneTask}
  /\ ~(t - frame.last_update_time < THROTTLE)

\* a final edit that waits for the edit in flight as the intermediate ones
\* do: C8_FinalEdit tells it from the code's
FinalEditDueThrottled(frame) ==
  /\ frame.final_message # <<>>
  /\ frame.last_update_task \in {NoTask, DoneTask}

\* __complete, line 363: the final edit is made when a snapshot was received
FinalEditDue(frame) == frame.final_message # <<>>

\* __complete, line 364: the text of the final edit
FinalText(frame) == frame.final_message[1]

\* history: the cycle of a handle_message call on conversation c ended;
\* `replied`: its stream had ended normally after at least one snapshot
Counted(c, replied) ==
  IF opLog.op = "handle_message"
    THEN [stats EXCEPT ![c].replied = @ + (IF replied THEN 1 ELSE 0)]
    ELSE stats

\* __complete, lines 376-378, and the return of the operation
CompleteReturns(replied) ==
  /\ current_conversation' = call.conversation
  /\ AddTimeoutTask
  /\ call' = IdleCall
  /\ stats' = Counted(call.conversation, replied)
  /\ outcome' = [outcome EXCEPT !.result = "returned", !.sent = call.sent_message_id,
                                !.conversation = call.conversation]

\* the edit of the error notice raised: the exception leaves __complete and
\* the operation, lines 376-378 are not reached
CompleteRaises ==
  /\ call' = IdleCall
  /\ stats' = Counted(call.conversation, gen.ended = "end")
  /\ outcome' = [outcome EXCEPT !.result = "raised", !.sent = call.sent_message_id,
                                !.conversation = call.conversation]
  /\ UNCHANGED <<current_conversation, timeout_task, timers>>

\* handle_message, lines 116-124: a text message of the user arrives and
\* the placeholder is sent.
HandleMessageCall ==
  /\ call.pc = "idle"
  /\ outcome.calls < budget.calls
  /\ lastId' = lastId + 1
  /\ call' = [IdleCall EXCEPT !.pc = "reply", !.user_message_id = lastId + 1]
  /\ outcome' = [outcome EXCEPT !.calls = @ + 1, !.result = "none"]
  /\ opLog' = [NoOp EXCEPT !.op = "handle_message"]
  /\ UNCHANGED <<conversation_timeout, all_conversations, current_conversation,
                 timeout_task, timers, shown, inflight, gen, now, editLog,
                 stats, yielded>>
  /\ UNCHANGED <<budget, serVars, modeVars>>

\* reply_text returned: lines 126-134, then __complete up to its first wait
\* for the generator, lines 342-350.
ReplySent ==
  /\ call.pc = "reply"
  /\ LET sent == lastId + 1
         user_message == [role |-> "user", id |-> call.user_message_id,
                          content |-> USER_TEXT]
         stored == StoreUserMessage(user_message)
     IN /\ lastId' = sent
        /\ shown' = shown @@ (sent :> [text |-> GENERATING_RESPONSE, markup |-> NoMarkup])
        /\ all_conversations' = stored.conversations
        /\ call' = [call EXCEPT !.pc = "stream", !.sent_message_id = sent,
                                !.conversation = stored.id,
                                !.last_update_time = now]
        /\ stats' = IF stored.id \in DOMAIN stats
                      THEN [stats EXCEPT ![stored.id].handled = @ + 1]
                      ELSE stats @@ (stored.id :> [handled |-> 1, replied |-> 0])
  /\ gen' = FreshGen
  /\ editLog' = <<>>
  /\ UNCHANGED <<conversation_timeout, current_conversation, timeout_task,
                 timers, inflight, now, outcome, yielded>>
  /\ UNCHANGED <<budget, serVars, opLog, modeVars>>

\* reply_text raised: the exception leaves handle_message.
ReplyFailed ==
  /\ call.pc = "reply"
  /\ call' = IdleCall
  /\ outcome' = [outcome EXCEPT !.result = "raised", !.sent = 0,
                                !.conversation = NoConversation]
  /\ UNCHANGED <<conversation_timeout, all_conversations, current_conversation,
                 timeout_task, timers, shown, lastId, inflight, gen, now,
                 editLog, stats, yielded>>
  /\ UNCHANGED <<budget, serVars, opLog, modeVars>>

\* time passes while the cycle waits for the generator
Tick ==
  /\ call.pc = "stream"
  /\ now < budget.time
  /\ now' = now + 1
  /\ UNCHANGED <<conversation_timeout, all_conversations, current_conversation,
                 timeout_task, timers, shown, lastId, inflight, call, gen,
                 editLog, stats, outcome, yielded>>
  /\ UNCHANGED <<budget, serVars, opLog, modeVars>>

\* the generator yields a snapshot: lines 350-361.
GenYield ==
  /\ call.pc = "stream"
  /\ yielded < budget.snapshots
  /\ LET k == gen.snaps + 1
         c == call.conversation
         text == WithMarker(Content(k))
         id == FreshId(EditIds)
     IN /\ all_conversations' =
             [all_conversations EXCEPT ![c].messages = GptSnapshot(@, k, call.sent_message_id)]
        /\ gen' = [gen EXCEPT !.snaps = k, !.lastAt = now,
                              !.close = @ /\ (k = 1 \/ now - gen.lastAt < THROTTLE)]
        /\ IF ThrottleAllows(call, now)
             THEN /\ call' = [call EXCEPT !.final_message = <<Content(k)>>,
                                          !.last_update_time = now,
                                          !.last_update_task = id]
                  /\ inflight' = inflight \cup
                       {Issue(id, call.sent_message_id, text, NoMarkup, "partial")}
                  /\ editLog' = Logged("partial", text, k)
             ELSE /\ call' = [call EXCEPT !.final_message = <<Content(k)>>]
                  /\ UNCHANGED <<inflight, editLog>>
  /\ yielded' = yielded + 1
  /\ UNCHANGED <<conversation_timeout, current_conversation, timeout_task,
                 timers, shown, lastId, now, stats, outcome>>
  /\ UNCHANGED <<budget, serVars, opLog, modeVars>>

\* the generator's stream ends: lines 363-366, and with no snapshot received
\* lines 376-378 at once.
GenEnd ==
  /\ call.pc = "stream"
  /\ gen' = [gen EXCEPT !.ended = "end"]
  /\ IF FinalEditDue(call)
       THEN LET id == FreshId(EditIds)
            IN /\ inflight' = inflight \cup
                    {Issue(id, call.sent_message_id, FinalText(call), NoMarkup, "final")}
               /\ call' = [call EXCEPT !.pc = "final", !.awaiting = id]
               /\ editLog' = Logged("final", FinalText(call), gen.snaps)
               /\ UNCHANGED <<current_conversation, timeout_task, timers, stats, outcome>>
       ELSE /\ CompleteReturns(FALSE)
            /\ UNCHANGED <<inflight, editLog>>
  /\ UNCHANGED <<conversation_timeout, all_conversations, shown, lastId, now, yielded>>
  /\ UNCHANGED <<budget, serVars, opLog, modeVars>>

\* the error notice of lines 367-369 (TimeoutError) and 371-373 (Exception)
Notice(kind) == IF kind = "timeout" THEN TIMED_OUT ELSE ERROR_GENERATING

\* a __complete without the handlers of lines 367-373, which the generator's
\* exception leaves: C22_ChainLiveness tells it from the code's
GenRaisePropagates(kind) ==
  /\ call.pc = "stream"
  /\ gen' = [gen EXCEPT !.ended = kind]
  /\ CompleteRaises
  /\ UNCHANGED <<conversation_timeout, all_conversations, shown, lastId,
                 inflight, now, editLog, yielded>>
  /\ UNCHANGED <<budget, serVars, opLog, modeVars>>

\* the generator raises: lines 367-369 or 371-373.
GenRaise(kind) ==
  /\ call.pc = "stream"
  /\ gen' = [gen EXCEPT !.ended = kind]
  /\ LET id == FreshId(EditIds)
     IN /\ inflight' = inflight \cup
             {Issue(id, call.sent_message_id, Notice(kind), RetryMarkup, "notice")}
        /\ call' = [call EXCEPT !.pc = "notice", !.awaiting = id]
        /\ editLog' = Logged("notice", Notice(kind), gen.snaps)
  /\ UNCHANGED <<conversation_timeout, all_conversations, current_conversation,
                 timeout_task, timers, shown, lastId, now, stats, outcome, yielded>>
  /\ UNCHANGED <<budget, serVars, opLog, modeVars>>

\* the operation returns to its caller (other than through __complete)
OpReturns ==
  /\ call' = IdleCall
  /\ outcome' = [outcome EXCEPT !.result = "returned", !.sent = 0,
                                !.conversation = NoConversation]

\* an exception of the transport leaves the operation
OpRaises ==
  /\ call' = IdleCall
  /\ outcome' = [outcome EXCEPT !.result = "raised", !.sent = 0,
                                !.conversation = NoConversation]

\* resume, lines 201-203
ResumeSetsCurrent ==
  /\ current_conversation' = call.conversation
  /\ AddTimeoutTask
  /\ OpReturns

\* the transport applies an edit and answers it. The coroutine that awaits
\* the answer goes on: after the final edit or the notice, lines 376-378; an
\* intermediate edit's task is done; retry_last_message returns (181), resume
\* goes on at line 201, new_conversation at line 87.
EditApplied(e) ==
  /\ e \in inflight
  /\ inflight' = inflight \ {e}
  /\ shown' = IF e.msg \in DOMAIN shown
                THEN [shown EXCEPT ![e.msg] = [text |-> e.text, markup |-> e.markup]]
                ELSE shown
  /\ IF call.pc \in {"final", "notice"} /\ call.awaiting = e.id
       THEN CompleteReturns(gen.ended = "end")
       ELSE IF call.pc = "resume_edit" /\ call.awaiting = e.id
         THEN ResumeSetsCurrent /\ UNCHANGED stats
       ELSE IF call.pc = "retry_edit" /\ call.awaiting = e.id
         THEN OpReturns /\ UNCHANGED <<current_conversation, timeout_task, timers, stats>>
       ELSE /\ call' = IF call.pc = "stream" /\ call.last_update_task = e.id
                         THEN [call EXCEPT !.last_update_task = DoneTask]
                       ELSE IF call.pc = "expire_edit" /\ call.awaiting = e.id
                         THEN [call EXCEPT !.pc = "announce", !.awaiting = NoTask]
                         ELSE call
            /\ UNCHANGED <<current_conversation, timeout_task, timers, stats, outcome>>
  /\ UNCHANGED <<conversation_timeout, all_conversations, lastId, gen, now,
                 editLog, yielded>>
  /\ UNCHANGED <<budget, serVars, opLog, modeVars>>

\* the transport answers an edit with an error. A failed final edit is
\* caught at line 371 and the error notice is sent; a failed notice edit
\* raises out of __complete; a failed intermediate edit ends its task; a
\* failed edit of lines 180, 199 or 432 raises out of its operation.
EditRejected(e) ==
  /\ e \in inflight
  /\ IF call.pc = "final" /\ call.awaiting = e.id
       THEN LET id == FreshId(EditIds \ {e.id})
            IN /\ inflight' = (inflight \ {e}) \cup
                    {Issue(id, call.sent_message_id, ERROR_GENERATING, RetryMarkup, "notice")}
               /\ call' = [call EXCEPT !.pc = "notice", !.awaiting = id]
               /\ editLog' = Logged("notice", ERROR_GENERATING, gen.snaps)
               /\ UNCHANGED <<current_conversation, timeout_task, timers, stats, outcome>>
       ELSE /\ inflight' = inflight \ {e}
            /\ UNCHANGED editLog
            /\ IF call.pc = "notice" /\ call.awaiting = e.id
                 THEN CompleteRaises
               ELSE IF call.pc \in {"retry_edit", "resume_edit", "expire_edit"}
                       /\ call.awaiting = e.id
                 THEN OpRaises /\ UNCHANGED <<current_conversation, timeout_task,
                                              timers, stats>>
                 ELSE /\ call' = IF call.pc = "stream" /\ call.last_update_task = e.id
                                   THEN [call EXCEPT !.last_update_task = DoneTask]
                                   ELSE call
                      /\ UNCHANGED <<current_conversation, timeout_task, timers,
                                     stats, outcome>>
  /\ UNCHANGED <<conversation_timeout, all_conversations, shown, lastId, gen,
                 now, yielded>>
  /\ UNCHANGED <<budget, serVars, opLog, modeVars>>

\* an expiry that rewrites the last message whatever its role:
\* C16_ExpiryByCase tells it from the code's
ExpireRewritesAnyMessage ==
  IF current_conversation = NoConversation
    THEN UNCHANGED <<current_conversation, inflight>>
    ELSE /\ current_conversation' = NoConversation
         /\ LET c == all_conversations[current_conversation]
                last == LastMessage(current_conversation)
            IN IF last = <<>>
                 THEN UNCHANGED inflight
                 ELSE inflight' = inflight \cup
                        {Issue(FreshId(EditIds), last[1].id,
                               ExpiredText(last[1].content, c.title),
                               ResumeMarkup(c.id), "expiry")}

\* __expire_current_conversation, lines 417-434
ExpireCurrentConversation ==
  IF current_conversation = NoConversation
    THEN UNCHANGED <<current_conversation, inflight>>
    ELSE /\ current_conversation' = NoConversation
         /\ LET c == all_conversations[current_conversation]
                last == LastMessage(current_conversation)
            IN IF last = <<>> \/ last[1].role # "assistant"
                 THEN UNCHANGED inflight
                 ELSE inflight' = inflight \cup
                        {Issue(FreshId(EditIds), last[1].id,
                               ExpiredText(last[1].content, c.title),
                               ResumeMarkup(c.id), "expiry")}

\* time_out_current_conversation, lines 409-413: the sleep of timer task t
\* is over.
TimerFire(t) ==
  /\ t \in timers
  /\ timers' = timers \ {t}
  /\ timeout_task' = NoTask
  /\ ExpireCurrentConversation
  /\ UNCHANGED <<conversation_timeout, all_conversations, shown, lastId, call,
                 gen, now, editLog, stats, outcome, yielded>>
  /\ UNCHANGED <<budget, serVars, opLog, modeVars>>

\* ChatContext.current_mode, lines 51-56: <<>> for None
CurrentMode ==
  IF current_mode_id = NoMode
    THEN <<>>
    ELSE IF current_mode_id \in DOMAIN modes THEN <<current_mode_id>> ELSE <<>>

\* the title of the current mode as the texts of lines 89 and 193 name it
ModeTitle == IF CurrentMode = <<>> THEN <<>> ELSE <<modes[CurrentMode[1]].title>>

\* the expiry of lines 417-434 rewrites a message
ExpiryEditDue ==
  /\ current_conversation # NoConversation
  /\ LET last == LastMessage(current_conversation)
     IN last # <<>> /\ last[1].role = "assistant"

\* a new_conversation that leaves the timer armed: C21_NewConversation tells
\* it from the code's
NewConversationKeepsTimer ==
  /\ call.pc = "idle"
  /\ outcome.calls < budget.calls
  /\ opLog' = Began("new_conversation", current_conversation)
  /\ outcome' = [outcome EXCEPT !.calls = @ + 1, !.result = "none"]
  /\ UNCHANGED <<timers, timeout_task>>
  /\ ExpireCurrentConversation
  /\ call' = IF ExpiryEditDue
               THEN [IdleCall EXCEPT !.pc = "expire_edit", !.awaiting = FreshId(EditIds)]
               ELSE [IdleCall EXCEPT !.pc = "announce"]
  /\ UNCHANGED <<conversation_timeout, all_conversations, shown, lastId, gen,
                 now, editLog, stats, yielded>>
  /\ UNCHANGED <<budget, serVars, modeVars>>

\* new_conversation, lines 79-85: the timer is cancelled and the current
\* conversation expired; the operation awaits the edit of the expiry, if
\* there is one, and goes on to the announcement.
NewConversationCall ==
  /\ call.pc = "idle"
  /\ outcome.calls < budget.calls
  /\ opLog' = Began("new_conversation", current_conversation)
  /\ outcome' = [outcome EXCEPT !.calls = @ + 1, !.result = "none"]
  /\ timers' = timers \ {timeout_task}
  /\ timeout_task' = NoTask
  /\ ExpireCurrentConversation
  /\ call' = IF ExpiryEditDue
               THEN [IdleCall EXCEPT !.pc = "expire_edit", !.awaiting = FreshId(EditIds)]
               ELSE [IdleCall EXCEPT !.pc = "announce"]
  /\ UNCHANGED <<conversation_timeout, all_conversations, shown, lastId, gen,
                 now, editLog, stats, yielded>>
  /\ UNCHANGED <<budget, serVars, modeVars>>

\* retry_last_message, lines 167-174
RetryCall ==
  /\ call.pc = "idle"
  /\ outcome.calls < budget.calls
  /\ opLog' = Began("retry", current_conversation)
  /\ outcome' = [outcome EXCEPT !.calls = @ + 1, !.result = "none"]
  /\ call' = IF current_conversation = NoConversation
               THEN [IdleCall EXCEPT !.pc = "retry_none"]
               ELSE [IdleCall EXCEPT !.pc = "retry_send",
                                     !.conversation = current_conversation]
  /\ UNCHANGED <<conversation_timeout, all_conversations, current_conversation,
                 timeout_task, timers, shown, lastId, inflight, gen, now,
                 editLog, stats, yielded>>
  /\ UNCHANGED <<budget, serVars, modeVars>>

\* the conversation ids a resume request may carry: those stored and one
\* that is not
ResumeIds == 0..Cardinality(DOMAIN all_conversations)

\* a lookup that falls back on the conversation stored last:
\* C17_ResumeNotFound tells it from the code's
GetConversationOrLast(conversation_id) ==
  IF conversation_id \in DOMAIN all_conversations
    THEN <<conversation_id>>
    ELSE IF all_conversations = <<>>
      THEN <<>>
      ELSE <<Cardinality(DOMAIN all_conversations) - 1>>

\* ChatContext.get_conversation, lines 58-61: <<>> for None
GetConversation(conversation_id) ==
  IF conversation_id \in DOMAIN all_conversations THEN <<conversation_id>> ELSE <<>>

\* resume, lines 185-195
ResumeCall(conversation_id) ==
  /\ call.pc = "idle"
  /\ outcome.calls < budget.calls
  /\ opLog' = Began("resume", conversation_id)
  /\ outcome' = [outcome EXCEPT !.calls = @ + 1, !.result = "none"]
  /\ call' = IF GetConversation(conversation_id) = <<>>
               THEN [IdleCall EXCEPT !.pc = "resume_notfound"]
               ELSE [IdleCall EXCEPT !.pc = "resume_send",
                                     !.conversation = GetConversation(conversation_id)[1]]
  /\ UNCHANGED <<conversation_timeout, all_conversations, current_conversation,
                 timeout_task, timers, shown, lastId, inflight, gen, now,
                 editLog, stats, yielded>>
  /\ UNCHANGED <<budget, serVars, modeVars>>

\* the message a send_message call of the operation in progress sends
SendText ==
  CASE call.pc = "retry_none" -> [text |-> NO_CONVERSATION_TO_RETRY, markup |-> NoMarkup]
    [] call.pc = "retry_send" -> [text |-> REGENERATING_RESPONSE, markup |-> NoMarkup]
    [] call.pc = "resume_notfound" -> [text |-> NOT_FOUND, markup |-> NoMarkup]
    [] call.pc = "resume_send" ->
         [text |-> ResumingText(all_conversations[call.conversation].title, ModeTitle),
          markup |-> NoMarkup]
    [] call.pc = "announce" -> [text |-> StartedText(ModeTitle), markup |-> ChangeModeMarkup]

\* send_message returned and the operation returns: lines 171-172, 189-190
\* and 94-96
NoticeSent ==
  /\ call.pc \in {"retry_none", "resume_notfound", "announce"}
  /\ lastId' = lastId + 1
  /\ shown' = shown @@ ((lastId + 1) :> SendText)
  /\ OpReturns
  /\ UNCHANGED <<conversation_timeout, all_conversations, current_conversation,
                 timeout_task, timers, inflight, gen, now, editLog, stats, yielded>>
  /\ UNCHANGED <<budget, serVars, opLog, modeVars>>

\* a retry that keeps the assistant message it is to replace: C12_RetryReplaces
\* tells it from the code's
RetryKeepsAll(ms) == ms

\* retry_last_message, lines 176-177: the messages kept
RetryKept(ms) ==
  IF ms # <<>> /\ ms[Len(ms)].role = "assistant"
    THEN SubSeq(ms, 1, Len(ms) - 1)
    ELSE ms

\* a retry that goes on only from an assistant message: C11_RetryOfUserMessage
\* tells it from the code's
RetryProceedsFromAssistant(kept) ==
  kept # <<>> /\ kept[Len(kept)].role = "assistant"

\* retry_last_message, line 179: there is a user message to complete
RetryProceeds(kept) == kept # <<>> /\ kept[Len(kept)].role = "user"

\* send_message of line 174 returned: lines 176-183, then __complete up to
\* its first wait for the generator, lines 342-350.
RetrySent ==
  /\ call.pc = "retry_send"
  /\ LET sent == lastId + 1
         c == call.conversation
         kept == RetryKept(all_conversations[c].messages)
         id == FreshId(EditIds)
     IN /\ lastId' = sent
        /\ shown' = shown @@ (sent :> SendText)
        /\ all_conversations' = [all_conversations EXCEPT ![c].messages = kept]
        /\ IF ~RetryProceeds(kept)
             THEN /\ inflight' = inflight \cup
                       {Issue(id, sent, NO_MESSAGE_TO_RETRY, NoMarkup, "retry")}
                  /\ call' = [call EXCEPT !.pc = "retry_edit", !.awaiting = id]
                  /\ UNCHANGED <<gen, editLog>>
             ELSE /\ call' = [call EXCEPT !.pc = "stream", !.sent_message_id = sent,
                                          !.last_update_time = now]
                  /\ gen' = FreshGen
                  /\ editLog' = <<>>
                  /\ UNCHANGED inflight
  /\ UNCHANGED <<conversation_timeout, current_conversation, timeout_task,
                 timers, now, stats, outcome, yielded>>
  /\ UNCHANGED <<budget, serVars, opLog, modeVars>>

\* send_message of line 195 returned: lines 197-205
ResumeSent ==
  /\ call.pc = "resume_send"
  /\ lastId' = lastId + 1
  /\ shown' = shown @@ ((lastId + 1) :> SendText)
  /\ LET last == LastMessage(call.conversation)
         id == FreshId(EditIds)
     IN IF last # <<>>
          THEN /\ inflight' = inflight \cup
                    {Issue(id, last[1].id, last[1].content, NoMarkup, "resume")}
               /\ call' = [call EXCEPT !.pc = "resume_edit", !.awaiting = id]
               /\ UNCHANGED <<current_conversation, timeout_task, timers, outcome>>
          ELSE /\ ResumeSetsCurrent
               /\ UNCHANGED inflight
  /\ UNCHANGED <<conversation_timeout, all_conversations, gen, now, editLog,
                 stats, yielded>>
  /\ UNCHANGED <<budget, serVars, opLog, modeVars>>

\* send_message raised: the exception leaves the operation
SendFailed ==
  /\ call.pc \in {"retry_none", "retry_send", "resume_notfound", "resume_send",
                  "announce"}
  /\ OpRaises
  /\ UNCHANGED <<conversation_timeout, all_conversations, current_conversation,
                 timeout_task, timers, shown, lastId, inflight, gen, now,
                 editLog, stats, yielded>>
  /\ UNCHANGED <<budget, serVars, opLog, modeVars>>

(***************************************************************************)
(* The operations on modes (src/chat.py 239-339).  Each changes the chat's *)
(* data before its one transport call, with no await in between, so it is  *)
(* one step; `ok` is whether the transport call succeeded.                 *)
(***************************************************************************)
\* an id generator that gives out the least id no stored mode has:
\* C19_DeletedModeNeverResolves tells it from uuid4
NewModeIdReused == FreshId(DOMAIN modes)

\* ConversationMode.id, line 18: uuid4 never gives an id a second time
NewModeId == modeLog.made + 1

\* the mode ids a callback may carry: those given out, and one that never was
ModeIds == 1..(modeLog.made + 1)

\* ChatContext.current_mode (lines 51-56) over the modes `ms`
CurrentModeOf(ms) ==
  IF current_mode_id = NoMode
    THEN <<>>
    ELSE IF current_mode_id \in DOMAIN ms THEN <<current_mode_id>> ELSE <<>>

\* the stored mode ids from `i` on, in the order of the dict (insertion order)
RECURSIVE ModeIdsFrom(_)
ModeIdsFrom(i) ==
  IF i > modeLog.made
    THEN <<>>
    ELSE (IF i \in DOMAIN modes THEN <<i>> ELSE <<>>) \o ModeIdsFrom(i + 1)

\* the buttons of one mode each, lines 247-248
RECURSIVE ModeButtons(_)
ModeButtons(ids) ==
  IF ids = <<>>
    THEN <<>>
    ELSE <<modes[Head(ids)].title, "/mode_select_" \o ToString(Head(ids))>>
           \o ModeButtons(Tail(ids))

\* list_modes_for_selection, lines 239-249: text and buttons
ModeListMessage ==
  [text |-> IF modes = <<>>
              THEN NO_MODES
              ELSE IF CurrentMode = <<>>
                THEN SELECT_A_MODE
                ELSE CurrentModeText(modes[CurrentMode[1]].title),
   markup |-> ModeButtons(ModeIdsFrom(1))
                \o <<"Clear", "/mode_clear", "Add", "/mode_add", "Show", "/mode_show">>]

\* an operation on modes begins: the handlers of a chat run one at a time
ModeOpBegins(op) ==
  /\ call.pc = "idle"
  /\ outcome.calls < budget.calls
  /\ opLog' = [NoOp EXCEPT !.op = op]

\* the operation ends, by returning or with the transport's exception
ModeOpEnds(ok) ==
  outcome' = [outcome EXCEPT !.calls = @ + 1,
                             !.result = IF ok THEN "returned" ELSE "raised",
                             !.sent = 0, !.conversation = NoConversation]

\* send_message of an operation on modes
ModeSend(text, markup, ok) ==
  /\ IF ok
       THEN /\ lastId' = lastId + 1
            /\ shown' = shown @@ ((lastId + 1) :> [text |-> text, markup |-> markup])
       ELSE UNCHANGED <<lastId, shown>>
  /\ ModeOpEnds(ok)

\* edit_message_text of an operation on modes, on the message of its button
ModeEdit(message_id, text, ok) ==
  /\ IF ok
       THEN shown' = [shown EXCEPT ![message_id] = [text |-> text, markup |-> NoMarkup]]
       ELSE UNCHANGED shown
  /\ UNCHANGED lastId
  /\ ModeOpEnds(ok)

\* what no operation on modes touches
ModeFrame ==
  /\ UNCHANGED <<conversation_timeout, all_conversations, current_conversation,
                 timeout_task, timers, inflight, call, gen, now, editLog,
                 stats, yielded>>
  /\ UNCHANGED <<budget, serVars>>

\* list_modes_for_selection, lines 239-249
ListModesForSelection(ok) ==
  /\ ModeOpBegins("list_modes_for_selection")
  /\ ModeSend(ModeListMessage.text, ModeListMessage.markup, ok)
  /\ ModeFrame
  /\ UNCHANGED modeVars

\* select_mode, lines 252-268 (set_current_mode, 68-69); mode_id NoMode is
\* the None of the 'Clear' button
SelectMode(mode_id, sent_message_id, ok) ==
  /\ ModeOpBegins("select_mode")
  /\ IF mode_id = NoMode
       THEN /\ current_mode_id' = NoMode
            /\ ModeEdit(sent_message_id, CLEARED_MODE, ok)
       ELSE IF mode_id \notin DOMAIN modes
         THEN /\ UNCHANGED current_mode_id
              /\ ModeSend(MODE_NOT_FOUND, NoMarkup, ok)
         ELSE /\ current_mode_id' = mode_id
              /\ ModeEdit(sent_message_id, ChangedModeText(modes[mode_id].title), ok)
  /\ ModeFrame
  /\ UNCHANGED <<modes, new_mode_title, editing_mode, modeLog>>

\* update_mode_title, lines 270-272, and the prompt for the next entry of
\* its handler (src/bot.py 166-177)
UpdateModeTitle(title, ok) ==
  /\ ModeOpBegins("update_mode_title")
  /\ new_mode_title' = <<title>>
  /\ ModeSend(ENTER_PROMPT, NoMarkup, ok)
  /\ ModeFrame
  /\ UNCHANGED <<modes, current_mode_id, editing_mode, modeLog>>

\* an add_or_edit_mode without the check of line 286, which adds a mode with
\* an empty title when none is pending: C24_InvalidState tells it from the
\* code's
AddOrEditModeUnchecked(prompt, ok) ==
  /\ ModeOpBegins("add_or_edit_mode")
  /\ IF editing_mode # NoMode
       THEN /\ modes' = IF editing_mode \in DOMAIN modes
                          THEN [modes EXCEPT ![editing_mode].prompt = prompt]
                          ELSE modes
            /\ editing_mode' = NoMode
            /\ ModeSend(MODE_UPDATED, NoMarkup, ok)
            /\ UNCHANGED <<current_mode_id, new_mode_title, modeLog>>
       ELSE /\ new_mode_title' = <<>>
            /\ UNCHANGED editing_mode
            /\ modes' = modes @@
                          (NewModeId :> [title |-> IF new_mode_title = <<>>
                                                     THEN ""
                                                     ELSE new_mode_title[1],
                                         prompt |-> prompt])
            /\ modeLog' = [modeLog EXCEPT !.made = @ + 1]
            /\ current_mode_id' = IF CurrentModeOf(modes') = <<>>
                                    THEN NewModeId
                                    ELSE current_mode_id
            /\ ModeSend(MODE_ADDED, NoMarkup, ok)
  /\ ModeFrame

\* add_or_edit_mode, lines 274-293 (add_mode, 63-66): the mode being edited
\* is an object, which delete_mode may have taken out of the dict
AddOrEditMode(prompt, ok) ==
  /\ ModeOpBegins("add_or_edit_mode")
  /\ IF editing_mode # NoMode
       THEN /\ modes' = IF editing_mode \in DOMAIN modes
                          THEN [modes EXCEPT ![editing_mode].prompt = prompt]
                          ELSE modes
            /\ editing_mode' = NoMode
            /\ ModeSend(MODE_UPDATED, NoMarkup, ok)
            /\ UNCHANGED <<current_mode_id, new_mode_title, modeLog>>
       ELSE /\ new_mode_title' = <<>>
            /\ UNCHANGED editing_mode
            /\ IF new_mode_title = <<>>
                 THEN /\ ModeOpEnds(FALSE)
                      /\ UNCHANGED <<modes, current_mode_id, modeLog, lastId, shown>>
                 ELSE /\ modes' = modes @@ (NewModeId :> [title |-> new_mode_title[1],
                                                         prompt |-> prompt])
                      /\ modeLog' = [modeLog EXCEPT !.made = @ + 1]
                      /\ current_mode_id' = IF CurrentModeOf(modes') = <<>>
                                              THEN NewModeId
                                              ELSE current_mode_id
                      /\ ModeSend(MODE_ADDED, NoMarkup, ok)
  /\ ModeFrame

\* edit_mode, lines 319-328
EditMode(id, ok) ==
  /\ ModeOpBegins("edit_mode")
  /\ IF id \notin DOMAIN modes
       THEN /\ UNCHANGED editing_mode
            /\ ModeSend(INVALID_MODE, NoMarkup, ok)
       ELSE /\ editing_mode' = id
            /\ ModeSend(EnterNewPromptText(modes[id].title), NoMarkup, ok)
  /\ ModeFrame
  /\ UNCHANGED <<modes, current_mode_id, new_mode_title, modeLog>>

\* __mode_add_cancel, src/bot.py 189-192: the /cancel of the entry flow, of
\* an addition or of an edit, sends its message and touches no chat state
ModeAddCancel(ok) ==
  /\ ModeOpBegins("cancel")
  /\ ModeSend(MODE_CANCELLED, NoMarkup, ok)
  /\ ModeFrame
  /\ UNCHANGED modeVars

\* delete_mode, lines 330-339
DeleteMode(id, sent_message_id, ok) ==
  /\ ModeOpBegins("delete_mode")
  /\ IF id \notin DOMAIN modes
       THEN /\ UNCHANGED <<modes, modeLog>>
            /\ ModeSend(INVALID_MODE, NoMarkup, ok)
       ELSE /\ modes' = [i \in DOMAIN modes \ {id} |-> modes[i]]
            /\ modeLog' = [modeLog EXCEPT !.deleted = @ \cup {id}]
            /\ ModeEdit(sent_message_id, ModeDeletedText(modes[id].title), ok)
  /\ ModeFrame
  /\ UNCHANGED <<current_mode_id, new_mode_title, editing_mode>>

(***************************************************************************)
(* handle_audio (src/chat.py 138-165).  `ok` is whether the transport call *)
(* succeeded; the speech backend answers with a text, an empty text or an  *)
(* exception.                                                              *)
(***************************************************************************)
\* what no step of handle_audio touches
AudioFrame ==
  /\ UNCHANGED <<conversation_timeout, all_conversations, current_conversation,
                 timeout_task, timers, inflight, gen, now, editLog, stats,
                 yielded>>
  /\ UNCHANGED <<budget, serVars, modeVars>>

\* handle_audio, lines 138-144: a voice message of the user arrives; `speech`
\* is whether the chat manager was given a speech backend
HandleAudioCall(speech) ==
  /\ call.pc = "idle"
  /\ outcome.calls < budget.calls
  /\ lastId' = lastId + 1
  /\ call' = [IdleCall EXCEPT !.pc = IF speech THEN "audio_send" ELSE "audio_unavailable",
                              !.user_message_id = lastId + 1]
  /\ outcome' = [outcome EXCEPT !.calls = @ + 1, !.result = "none"]
  /\ opLog' = Began("handle_audio", current_conversation)
  /\ UNCHANGED shown
  /\ AudioFrame

\* the send_message of line 141 or of line 144 is answered
AudioSendAnswered(ok) ==
  /\ call.pc \in {"audio_unavailable", "audio_send"}
  /\ IF ~ok
       THEN OpRaises /\ UNCHANGED <<shown, lastId>>
       ELSE /\ lastId' = lastId + 1
            /\ IF call.pc = "audio_unavailable"
                 THEN /\ shown' = shown @@ ((lastId + 1) :>
                                   [text |-> SPEECH_UNAVAILABLE, markup |-> NoMarkup])
                      /\ OpReturns
                 ELSE /\ shown' = shown @@ ((lastId + 1) :>
                                   [text |-> RECOGNIZING_AUDIO, markup |-> NoMarkup])
                      /\ call' = [call EXCEPT !.pc = "recognize",
                                              !.sent_message_id = lastId + 1]
                      /\ UNCHANGED outcome
  /\ UNCHANGED opLog
  /\ AudioFrame

\* speech_to_text is answered, lines 146-159: the edit that follows is sent
SpeechAnswered(result) ==
  /\ call.pc = "recognize"
  /\ call' = [call EXCEPT !.pc = IF result = "text" THEN "audio_said" ELSE "audio_failed"]
  /\ UNCHANGED <<shown, lastId, outcome, opLog>>
  /\ AudioFrame

\* line 160: handle_message is called with the keywords text and
\* user_message_id, while its signature (line 116) has the keywords text
\* and update and no user_message_id: the
\* call raises TypeError before handle_message runs
AudioCallsHandleMessage == OpRaises

\* the edit of line 149, 156 or 159 is answered; after 'Could not recognize
\* audio' the operation returns, after 'You said' it goes on at line 160
AudioEditAnswered(ok) ==
  /\ call.pc \in {"audio_failed", "audio_said"}
  /\ shown' = IF ok
                THEN [shown EXCEPT ![call.sent_message_id] =
                        [text |-> IF call.pc = "audio_said"
                                    THEN YouSaidText(USER_TEXT)
                                    ELSE COULD_NOT_RECOGNIZE,
                         markup |-> NoMarkup]]
                ELSE shown
  /\ IF ~ok
       THEN OpRaises
       ELSE IF call.pc = "audio_failed"
         THEN OpReturns
         ELSE AudioCallsHandleMessage
  /\ UNCHANGED <<lastId, opLog>>
  /\ AudioFrame

(***************************************************************************)
(* The specifications.                                                     *)
(*   SpecSerializer: updates of the chats pass through the serializer,     *)
(*                   each operation an opaque body that returns or raises. *)
(*   SpecChat:       the operations of one chat run one after the other    *)
(*                   (as the serializer is meant to run them), with the    *)
(*                   transport, the generator and the expiry timer acting  *)
(*                   at every suspension point.                            *)
(*   SpecComplete:   the same for a single handle_message call on a fresh  *)
(*                   chat, with a longer stream and a longer clock.        *)
(***************************************************************************)
InitSerializer ==
  /\ SerializerIdle
  /\ ChatFresh
  /\ conversation_timeout = <<>>
  /\ budget = [calls |-> 0, snapshots |-> 0, time |-> 0]

NextSerializer ==
  \/ \E c \in ChatIds : Submit(c)
  \/ \E c \in ChatIds : Ignore(c)
  \/ RunReady
  \/ \E t \in TaskIds : IoDone(t, "ok")
  \/ \E t \in TaskIds : IoDone(t, "err")

SpecSerializer == InitSerializer /\ [][NextSerializer]_vars

InitChat ==
  /\ SerializerIdle
  /\ ChatFresh
  /\ conversation_timeout \in Timeouts
  /\ budget = [calls |-> MaxCalls, snapshots |-> ChatSnapshots, time |-> THROTTLE]

NextChat ==
  \/ HandleMessageCall
  \/ ReplySent
  \/ ReplyFailed
  \/ Tick
  \/ GenYield
  \/ GenEnd
  \/ GenRaise("timeout")
  \/ GenRaise("error")
  \/ \E e \in inflight : EditApplied(e)
  \/ \E e \in inflight : EditRejected(e)
  \/ \E t \in timers : TimerFire(t)

SpecChat == InitChat /\ [][NextChat]_vars

\* one handle_message call on a fresh chat
InitComplete ==
  /\ SerializerIdle
  /\ ChatFresh
  /\ conversation_timeout \in Timeouts
  /\ budget = [calls |-> 1, snapshots |-> MaxSnapshots, time |-> MaxTime]

SpecComplete == InitComplete /\ [][NextChat]_vars

\* a chat with a past: handle_message was answered with one snapshot
\* (messages 1 and 2), then new_conversation expired the conversation and
\* announced the new one (message 3)
HistoryMessages ==
  <<[role |-> "user", id |-> 1, content |-> USER_TEXT],
    [role |-> "assistant", id |-> 2, content |-> Content(1)]>>

InitHistory ==
  /\ all_conversations =
       0 :> [GptNewConversation(0, HistoryMessages[1]) EXCEPT !.messages = HistoryMessages]
  /\ current_conversation = NoConversation
  /\ timeout_task = NoTask
  /\ timers = {}
  /\ shown = (2 :> [text |-> ExpiredText(Content(1), GptNewConversation(0, HistoryMessages[1]).title),
                    markup |-> ResumeMarkup(0)])
             @@ (3 :> [text |-> StartedText(<<>>), markup |-> ChangeModeMarkup])
  /\ lastId = 3
  /\ inflight = {}
  /\ call = IdleCall
  /\ gen = [FreshGen EXCEPT !.snaps = 1, !.ended = "end"]
  /\ now = 0
  /\ editLog = <<[kind |-> "final", text |-> Content(1), at |-> 0, snap |-> 1,
                  busy |-> FALSE]>>
  /\ stats = 0 :> [handled |-> 1, replied |-> 1]
  /\ outcome = [calls |-> 0, result |-> "returned", sent |-> 0,
                conversation |-> NoConversation]
  /\ yielded = 0
  /\ opLog = [op |-> "new_conversation", target |-> 0, len |-> 2,
              last |-> "assistant"]
  /\ ModesFresh

\* every operation on the conversations of one chat, fresh or with a past;
\* the clock stands still
InitOps ==
  /\ SerializerIdle
  /\ ChatFresh \/ InitHistory
  /\ conversation_timeout \in SignedTimeouts
  /\ budget = [calls |-> MaxCalls, snapshots |-> OpsSnapshots, time |-> 0]

NextOps ==
  \/ HandleMessageCall
  \/ ReplySent
  \/ ReplyFailed
  \/ GenYield
  \/ GenEnd
  \/ GenRaise("timeout")
  \/ GenRaise("error")
  \/ \E e \in inflight : EditApplied(e)
  \/ \E e \in inflight : EditRejected(e)
  \/ \E t \in timers : TimerFire(t)
  \/ NewConversationCall
  \/ RetryCall
  \/ \E id \in ResumeIds : ResumeCall(id)
  \/ NoticeSent
  \/ RetrySent
  \/ ResumeSent
  \/ SendFailed

SpecOps == InitOps /\ [][NextOps]_vars

\* a chat whose one handle_message was answered with one snapshot: its
\* conversation is current (no timeout is configured)
InitAnswered ==
  /\ all_conversations =
       0 :> [GptNewConversation(0, HistoryMessages[1]) EXCEPT !.messages = HistoryMessages]
  /\ current_conversation = 0
  /\ timeout_task = NoTask
  /\ timers = {}
  /\ shown = 2 :> [text |-> Content(1), markup |-> NoMarkup]
  /\ lastId = 2
  /\ inflight = {}
  /\ call = IdleCall
  /\ gen = [FreshGen EXCEPT !.snaps = 1, !.ended = "end"]
  /\ now = 0
  /\ editLog = <<[kind |-> "final", text |-> Content(1), at |-> 0, snap |-> 1,
                  busy |-> FALSE]>>
  /\ stats = 0 :> [handled |-> 1, replied |-> 1]
  /\ outcome = [calls |-> 0, result |-> "returned", sent |-> 2, conversation |-> 0]
  /\ yielded = 0
  /\ opLog = [NoOp EXCEPT !.op = "handle_message"]
  /\ ModesFresh

\* the two layers side by side under fair scheduling: the serializer with
\* the updates of one chat (the operations opaque bodies), and one
\* operation with a completion cycle, handle_message or retry_last_message,
\* in full
InitChain ==
  /\ SerializerIdle
  /\ InitAnswered
  /\ conversation_timeout = <<>>
  /\ budget = [calls |-> 1, snapshots |-> 1, time |-> 0]

SubmitLive(c) == Len(tasks) < LiveUpdates /\ Submit(c)

NextChain ==
  \/ \E c \in ChatIds : SubmitLive(c)
  \/ RunReady
  \/ \E t \in TaskIds : IoDone(t, "ok")
  \/ \E t \in TaskIds : IoDone(t, "err")
  \/ HandleMessageCall
  \/ RetryCall
  \/ ReplySent
  \/ ReplyFailed
  \/ RetrySent
  \/ SendFailed
  \/ GenYield
  \/ GenEnd
  \/ GenRaise("timeout")
  \/ GenRaise("error")
  \/ \E e \in inflight : EditApplied(e)
  \/ \E e \in inflight : EditRejected(e)

\* every external call terminates, and the event loop runs what is ready
ChainFair ==
  /\ WF_vars(RunReady \/ \E t \in TaskIds : IoDone(t, "ok") \/ IoDone(t, "err"))
  /\ WF_vars(\/ ReplySent \/ ReplyFailed
             \/ RetrySent \/ SendFailed
             \/ GenEnd \/ GenRaise("timeout") \/ GenRaise("error")
             \/ \E e \in inflight : EditApplied(e) \/ EditRejected(e))

SpecChain == InitChain /\ [][NextChain]_vars /\ ChainFair

\* a chat whose add-mode flow was completed once: update_mode_title("A"),
\* then add_or_edit_mode("p"), which made the new mode the current one
InitOneMode ==
  /\ all_conversations = <<>>
  /\ current_conversation = NoConversation
  /\ timeout_task = NoTask
  /\ timers = {}
  /\ shown = (1 :> [text |-> ENTER_PROMPT, markup |-> NoMarkup])
             @@ (2 :> [text |-> MODE_ADDED, markup |-> NoMarkup])
  /\ lastId = 2
  /\ inflight = {}
  /\ call = IdleCall
  /\ gen = FreshGen
  /\ now = 0
  /\ editLog = <<>>
  /\ stats = <<>>
  /\ outcome = [calls |-> 0, result |-> "returned", sent |-> 0,
                conversation |-> NoConversation]
  /\ yielded = 0
  /\ opLog = [NoOp EXCEPT !.op = "add_or_edit_mode"]
  /\ modes = 1 :> [title |-> "A", prompt |-> "p"]
  /\ current_mode_id = 1
  /\ new_mode_title = <<>>
  /\ editing_mode = NoMode
  /\ modeLog = [made |-> 1, deleted |-> {}]

\* voice and text messages on one chat, fresh or with a current conversation
InitAudio ==
  /\ SerializerIdle
  /\ \/ ChatFresh /\ conversation_timeout \in Timeouts
     \/ InitAnswered /\ conversation_timeout = <<>>
  /\ budget = [calls |-> MaxCalls, snapshots |-> OpsSnapshots, time |-> 0]

NextAudio ==
  \/ \E speech \in BOOLEAN : HandleAudioCall(speech)
  \/ \E ok \in BOOLEAN : AudioSendAnswered(ok)
  \/ \E result \in {"text", "empty", "error"} : SpeechAnswered(result)
  \/ \E ok \in BOOLEAN : AudioEditAnswered(ok)
  \/ HandleMessageCall
  \/ ReplySent
  \/ ReplyFailed
  \/ GenYield
  \/ GenEnd
  \/ GenRaise("timeout")
  \/ GenRaise("error")
  \/ \E e \in inflight : EditApplied(e)
  \/ \E e \in inflight : EditRejected(e)
  \/ \E t \in timers : TimerFire(t)

SpecAudio == InitAudio /\ [][NextAudio]_vars

\* the operations on the modes of a chat, fresh or with one mode, and
\* new_conversation, whose announcement names the current mode
InitModes ==
  /\ SerializerIdle
  /\ ChatFresh \/ InitOneMode
  /\ conversation_timeout = <<>>
  /\ budget = [calls |-> MaxModeOps, snapshots |-> 0, time |-> 0]

NextModes ==
  \/ \E ok \in BOOLEAN : ListModesForSelection(ok)
  \/ \E mode_id \in {NoMode} \cup ModeIds, sent \in DOMAIN shown, ok \in BOOLEAN :
       SelectMode(mode_id, sent, ok)
  \/ \E title \in ModeTitles, ok \in BOOLEAN : UpdateModeTitle(title, ok)
  \/ \E prompt \in ModePrompts, ok \in BOOLEAN : AddOrEditMode(prompt, ok)
  \/ \E id \in ModeIds, ok \in BOOLEAN : EditMode(id, ok)
  \/ \E ok \in BOOLEAN : ModeAddCancel(ok)
  \/ \E id \in ModeIds, sent \in DOMAIN shown, ok \in BOOLEAN : DeleteMode(id, sent, ok)
  \/ NewConversationCall
  \/ NoticeSent
  \/ SendFailed

SpecModes == InitModes /\ [][NextModes]_vars

(***************************************************************************)
(* Claims about the serializer, checked under SpecSerializer.              *)
(***************************************************************************)
Started(t) == tasks[t].task \in {"running", "ok", "err"}

Executing(c) == {t \in TaskIds : tasks[t].chat = c /\ tasks[t].task = "running"}

\* the handler of t has come back from line 253
HandlerBack(t) == tasks[t].handler \in {"returned", "raised"}

\* no operation of chat c is pending or running, and every submitter has
\* been answered
Idle(c) == \A t \in TaskIds : tasks[t].chat = c => TaskDone(t) /\ HandlerBack(t)

\* C1: for every chat at most one submitted operation is inside invoke at any
\* time, and no operation starts while an operation submitted earlier for
\* the same chat has not finished.
C1_OneAtATime ==
  /\ \A c \in ChatIds : Cardinality(Executing(c)) <= 1
  /\ \A t \in TaskIds : \A u \in tasks[t].unfinishedAtStart : u > t

\* C2: operations of one chat start in their order of arrival: when an
\* operation has started, every operation that arrived before it for the
\* same chat has started too.
C2_StartInArrivalOrder ==
  \A a, b \in TaskIds :
    (a < b /\ tasks[a].chat = tasks[b].chat /\ Started(b)) => Started(a)

\* C3: A submitted, then B submitted for the same chat while A had not
\* finished, and A ended by raising: B started only after A had finished,
\* B's submitter is raised nothing but B's own exception, and A's submitter
\* is raised A's exception (A's handler never returns normally).
C3_FailureDoesNotLeak ==
  \A a, b \in TaskIds :
    (a \in tasks[b].unfinishedAtSubmit /\ a < b /\ tasks[a].task = "err") =>
      /\ Started(b) => a \notin tasks[b].unfinishedAtStart
      /\ tasks[b].handler = "raised" => tasks[b].task = "err"
      /\ tasks[a].handler # "returned"

\* C4: whenever a chat has no operation pending or running, chat_tasks holds
\* no entry for it, after a normal return and after a raise alike.
C4_IdleChatHasNoEntry ==
  \A c \in ChatIds : Idle(c) => chat_tasks[c] = 0


(***************************************************************************)
(* Claims about the completion cycle, checked under SpecComplete.          *)
(***************************************************************************)
\* this step ends the completion cycle in progress
CycleEnds == call.pc \in {"stream", "final", "notice"} /\ call'.pc = "idle"

IsPartial(r) == r.kind = "partial"
IsFinal(r) == r.kind = "final"
\* the intermediate and the final edits the cycle issued, in order
Partials == SelectSeq(editLog, IsPartial)
Finals == SelectSeq(editLog, IsFinal)

\* C5: when a completion cycle ends, whatever the
\* generator did (a stream of zero or more snapshots, a timeout, another
\* failure), the placeholder shows the complete assistant content without
\* the marker, or an error notice with the retry button.
C5_PlaceholderSettled ==
  [][CycleEnds =>
       shown'[call.sent_message_id] \in
         {[text |-> Content(gen'.snaps), markup |-> NoMarkup],
          [text |-> TIMED_OUT, markup |-> RetryMarkup],
          [text |-> ERROR_GENERATING, markup |-> RetryMarkup]}]_vars

\* C6: while the final edit or the error-notice edit of a placeholder is in
\* flight, no intermediate edit of that placeholder is in flight (so none
\* can be applied after it).
C6_FinalEditIsLast ==
  \A e, f \in inflight :
    ~(e.kind \in {"final", "notice"} /\ f.kind = "partial" /\ f.msg = e.msg)

\* C7: every intermediate edit was issued with no intermediate edit in
\* flight, at least THROTTLE after the intermediate edit before it, for the
\* snapshot that had just arrived (its text that snapshot's content and the
\* marker, the snapshots edited in increasing order, the latest one at its
\* arrival); and 5 snapshots each less than THROTTLE after the one before
\* get fewer than 5 intermediate edits.
C7_Throttle ==
  /\ \A i \in 1..Len(Partials) :
       /\ ~Partials[i].busy
       /\ Partials[i].text = WithMarker(Content(Partials[i].snap))
       /\ Partials[i].snap <= gen.snaps
       /\ Partials[i].snap = gen.snaps => Partials[i].at = gen.lastAt
       /\ i > 1 => /\ Partials[i].at - Partials[i - 1].at >= THROTTLE
                   /\ Partials[i].snap > Partials[i - 1].snap
  /\ (gen.snaps = 5 /\ gen.close) => Len(Partials) < 5

\* the throttle both skipped and issued edits in a run of 5 close snapshots
C7_Witness ==
  /\ gen.snaps = 5
  /\ gen.close
  /\ Len(Partials) >= 2

\* C8: a final edit is issued exactly when the stream has ended normally
\* after at least one snapshot, and only once; it comes after every
\* intermediate edit, and its text is the content of the last snapshot,
\* without the marker, whatever the throttle state.
C8_FinalEdit ==
  /\ Len(Finals) <= 1
  /\ (gen.ended = "end" /\ gen.snaps >= 1) <=> Len(Finals) = 1
  /\ Len(Finals) = 1 =>
       /\ Finals[1].text = Content(gen.snaps)
       /\ Finals[1].text[Len(Finals[1].text)] # MARKER
       /\ Finals[1].snap = gen.snaps
       /\ \A i \in 1..Len(editLog) :
            IsPartial(editLog[i]) => \E j \in (i + 1)..Len(editLog) : IsFinal(editLog[j])

\* the final edit was issued against the throttle: an intermediate edit in
\* flight, issued less than THROTTLE before
C8_Witness ==
  /\ Len(Finals) = 1
  /\ Finals[1].busy
  /\ Len(Partials) >= 1
  /\ Finals[1].at - Partials[Len(Partials)].at < THROTTLE

\* C9: when a completion cycle ends, whatever its outcome (also a failed
\* message edit), the conversation passed to it is the current conversation
\* and, with a timeout configured, a timer is armed.
C9_CurrentAndArmed ==
  [][CycleEnds =>
       /\ current_conversation' = call.conversation
       /\ Truthy(conversation_timeout) =>
            (timeout_task' # NoTask /\ timeout_task' \in timers')]_vars

(***************************************************************************)
(* Claims about sequences of operations, checked under SpecChat.           *)
(***************************************************************************)
\* user, assistant, user, assistant, ...
Alternating(ms) ==
  \A i \in 1..Len(ms) : ms[i].role = (IF i % 2 = 1 THEN "user" ELSE "assistant")

SentAt(pc) == call.pc = pc /\ lastId' = lastId + 1

\* the messages of conversation c, before and after the step
Messages(c) == all_conversations[c].messages
MessagesAfter(c) == all_conversations'[c].messages

\* C11 as stated: retry_last_message on a conversation whose last message
\* is a user message reports 'No message to retry' and calls no generator.
C11_NothingToRetry ==
  [][(SentAt("retry_send") /\ LastMessage(call.conversation)[1].role = "user") =>
       (call'.pc = "retry_edit" /\ gen' = gen)]_vars

\* C11 as amended: retry_last_message on a conversation whose last message
\* is a user message removes no message and starts a completion cycle for
\* it on the new placeholder; 'No message to retry' is reported, and no
\* generator called, only when no user message is last after the removal
\* of a trailing assistant message.
C11_RetryOfUserMessage ==
  [][SentAt("retry_send") =>
       LET ms == Messages(call.conversation)
           user == ms[Len(ms)].role = "user"
       IN /\ user => /\ call'.pc = "stream"
                     /\ gen' = FreshGen
                     /\ all_conversations' = all_conversations
                     /\ call'.conversation = call.conversation
                     /\ call'.sent_message_id = lastId'
                     /\ shown'[lastId'].text = REGENERATING_RESPONSE
          /\ call'.pc = "retry_edit" =>
               /\ ~user
               /\ gen' = gen
               /\ \E e \in inflight' \ inflight :
                    e.msg = lastId' /\ e.text = NO_MESSAGE_TO_RETRY]_vars

\* a retry after a generation that failed: the cycle runs again for the
\* user message, none removed
C11_Witness ==
  /\ opLog.op = "retry"
  /\ opLog.last = "user"
  /\ call.pc = "stream"
  /\ Len(Messages(call.conversation)) = opLog.len

ResumeSucceeds ==
  /\ call.pc \in {"resume_send", "resume_edit"}
  /\ call'.pc = "idle"
  /\ outcome'.result = "returned"

\* C13: when resume makes a conversation current while another one is,
\* that one has been expired before: at that step no other conversation is
\* current.
C13_PriorExpiredFirst ==
  [][ResumeSucceeds =>
       current_conversation \in {NoConversation, call.conversation}]_vars

\* this step is taken by a timer task: the operation in progress does not
\* move and a timer leaves the timers asleep
TimerStep == call' = call /\ timers' # timers

\* C14: while an operation of the chat is in progress, no step other than
\* the operation's own changes the current conversation or the timer handle.
C14_StateOwnedByOperations ==
  [][(call.pc # "idle" /\ call' = call) =>
       UNCHANGED <<current_conversation, timeout_task>>]_vars

\* C15: after every step at most one timer is live, the one the chat state
\* holds; and a timer that expires a conversation is the one the chat state
\* holds (a cancelled one never does).
C15_OneLiveTimer ==
  [][/\ Cardinality(timers') <= 1
     /\ timers' = {timeout_task'} \ {NoTask}
     /\ TimerStep => timers \ timers' = {timeout_task}]_vars

\* a timer was armed in place of a live one, which was cancelled
C15_Witness ==
  /\ timeout_task = 2
  /\ timers = {2}
  /\ call.pc = "idle"

\* this step is an expiry: a timer task's, or that of new_conversation
ExpiryStep ==
  \/ TimerStep
  \/ call.pc = "idle" /\ call'.pc \in {"expire_edit", "announce"}

\* C16: an expiry with no current conversation changes no conversation
\* state and issues no edit; otherwise it clears the current conversation,
\* and it issues an edit, one, exactly when the conversation's last message
\* is an assistant message: of that message, its content followed by the
\* notice with the conversation's title, with the resume button of the
\* conversation's id.
C16_ExpiryByCase ==
  [][ExpiryStep =>
       /\ UNCHANGED <<all_conversations, shown>>
       /\ IF current_conversation = NoConversation
            THEN UNCHANGED <<current_conversation, inflight>>
            ELSE /\ current_conversation' = NoConversation
                 /\ LET c == all_conversations[current_conversation]
                        ms == c.messages
                    IN IF ms # <<>> /\ ms[Len(ms)].role = "assistant"
                         THEN /\ inflight \subseteq inflight'
                              /\ \E e \in inflight' :
                                   /\ inflight' \ inflight = {e}
                                   /\ e.msg = ms[Len(ms)].id
                                   /\ e.text = ExpiredText(ms[Len(ms)].content, c.title)
                                   /\ e.markup = ResumeMarkup(c.id)
                         ELSE inflight' = inflight]_vars

\* a conversation answered by the assistant was expired: its rewrite is in
\* flight and nothing is current
C16_Witness ==
  /\ current_conversation = NoConversation
  /\ \E e \in inflight : e.kind = "expiry" /\ e.markup = ResumeMarkup(0)

\* this step is the call of resume (lines 185-190)
ResumeCalled == call.pc = "idle" /\ call'.pc \in {"resume_notfound", "resume_send"}

\* C17: resume with an id that is not stored, and only such a resume, takes
\* the not-found path; every step of that path leaves the current
\* conversation, the timer and the stored conversations unchanged and
\* issues no edit, and the path is one send_message of the not-found text,
\* after which the operation is over.
C17_ResumeNotFound ==
  [][/\ ResumeCalled =>
          /\ call'.pc = "resume_notfound" <=>
               opLog'.target \notin DOMAIN all_conversations
          /\ UNCHANGED <<current_conversation, timeout_task, timers,
                         all_conversations, shown, lastId, inflight>>
     /\ (call.pc = "resume_notfound" /\ call' # call) =>
          /\ UNCHANGED <<current_conversation, timeout_task, timers,
                         all_conversations, inflight>>
          /\ call'.pc = "idle"
          /\ \/ /\ outcome'.result = "returned"
                /\ shown' = shown @@ ((lastId + 1) :> [text |-> NOT_FOUND,
                                                       markup |-> NoMarkup])
             \/ /\ outcome'.result = "raised"
                /\ shown' = shown]_vars

\* a resume of an unknown id returned and left a current conversation with
\* its timer armed
C17_Witness ==
  /\ opLog.op = "resume"
  /\ opLog.target \notin DOMAIN all_conversations
  /\ call.pc = "idle"
  /\ outcome.result = "returned"
  /\ current_conversation # NoConversation
  /\ timeout_task \in timers

\* C18: with a timeout that is absent, zero or negative no timer is ever
\* scheduled.
C18_TimerOnlyForPositive ==
  (conversation_timeout = <<>> \/ conversation_timeout[1] <= 0) =>
    (timers = {} /\ timeout_task = NoTask)

(***************************************************************************)
(* Claims about the modes, checked under SpecModes.                        *)
(***************************************************************************)
\* C19: the id of a deleted mode never resolves to a mode again: no stored
\* mode has it, and while current_mode_id is such an id the current mode
\* reads as none; the step of delete_mode that removes the current mode
\* leaves current_mode_id as it is, and the current mode reads as a mode
\* again only through a step of select_mode or add_or_edit_mode that sets
\* current_mode_id to a stored mode's id.
C19_DeletedModeNeverResolves ==
  [][/\ modeLog'.deleted \cap DOMAIN modes' = {}
     /\ current_mode_id' \in modeLog'.deleted => CurrentMode' = <<>>
     /\ (CurrentMode # <<>> /\ current_mode_id \notin DOMAIN modes') =>
          /\ opLog'.op = "delete_mode"
          /\ current_mode_id' = current_mode_id
          /\ CurrentMode' = <<>>
     /\ (CurrentMode = <<>> /\ CurrentMode' # <<>>) =>
          /\ opLog'.op \in {"select_mode", "add_or_edit_mode"}
          /\ current_mode_id' # current_mode_id
          /\ current_mode_id' \in DOMAIN modes']_vars

\* the current mode was deleted, and a later new_conversation read the
\* current mode as none: its announcement names no mode
C19_Witness ==
  /\ current_mode_id \in modeLog.deleted
  /\ opLog.op = "new_conversation"
  /\ call.pc = "idle"
  /\ outcome.result = "returned"
  /\ shown[lastId].text = StartedText(<<>>)

(***************************************************************************)
(* Claims about the conversation store, checked under SpecOps.             *)
(***************************************************************************)
\* this step of handle_message creates a conversation (lines 441-444)
CreatesConversation ==
  call.pc = "reply" /\ call'.pc = "stream" /\ current_conversation = NoConversation

\* C20: the stored conversations have the ids 0..n-1, each stored under its
\* own id; a step that creates a conversation adds exactly the id n, the
\* count of those stored before it; every other step leaves the set of ids
\* as it is; and no step removes a conversation or changes the id or the
\* title of a stored one.
C20_ConversationIds ==
  [][LET ids == DOMAIN all_conversations
         idsAfter == DOMAIN all_conversations'
     IN /\ idsAfter = 0..(Cardinality(idsAfter) - 1)
        /\ \A c \in idsAfter : all_conversations'[c].id = c
        /\ idsAfter = IF CreatesConversation
                        THEN ids \cup {Cardinality(ids)}
                        ELSE ids
        /\ Cardinality(ids) \notin ids
        /\ \A c \in ids : all_conversations'[c].title = all_conversations[c].title]_vars

\* two conversations were created, and the first is current again
C20_Witness ==
  /\ DOMAIN all_conversations = {0, 1}
  /\ current_conversation = 0
  /\ call.pc = "idle"

(***************************************************************************)
(* Claims about new_conversation, checked under SpecOps.                   *)
(***************************************************************************)
\* this step is one of new_conversation: its call, the answer to the edit of
\* its expiry, or the answer to its announcement
NewConversationStep ==
  /\ opLog'.op = "new_conversation"
  /\ call' # call

\* new_conversation returns (line 96)
NewConversationReturns ==
  /\ NewConversationStep
  /\ call.pc # "idle"
  /\ call'.pc = "idle"
  /\ outcome'.result = "returned"

\* C21: no step of new_conversation changes the stored conversations, and
\* none but its return sends a message; the edit of the expiry is awaited
\* exactly when the conversation that was current ends with an assistant
\* message, and the announcement follows only once that message shows the
\* expiry notice and the resume button; when new_conversation returns,
\* nothing is current, no timer is armed, and the one message it sent is
\* the announcement.
C21_NewConversation ==
  [][/\ NewConversationStep =>
          /\ all_conversations' = all_conversations
          /\ current_conversation' = NoConversation
          /\ timeout_task' = NoTask /\ timers' = {}
          /\ call.pc = "idle" =>
               /\ call'.pc = (IF opLog'.last = "assistant" THEN "expire_edit" ELSE "announce")
               /\ lastId' = lastId
          /\ call.pc = "expire_edit" =>
               /\ lastId' = lastId
               /\ \/ call'.pc = "idle" /\ outcome'.result = "raised"
                  \/ /\ call'.pc = "announce"
                     /\ LET c == all_conversations[opLog.target]
                            last == c.messages[Len(c.messages)]
                        IN shown'[last.id] =
                             [text |-> ExpiredText(last.content, c.title),
                              markup |-> ResumeMarkup(c.id)]
     /\ NewConversationReturns =>
          /\ call.pc = "announce"
          /\ shown' = shown @@ ((lastId + 1) :> [text |-> StartedText(ModeTitle),
                                                 markup |-> ChangeModeMarkup])]_vars

\* new_conversation returned after a handle_message of this run had made a
\* conversation current and armed its timer: the conversation, answered by
\* the assistant, was expired
C21_Witness ==
  /\ opLog.op = "new_conversation"
  /\ opLog.last = "assistant"
  /\ outcome.calls = 2
  /\ conversation_timeout = <<30>>
  /\ call.pc = "idle"
  /\ outcome.result = "returned"
  /\ timers = {}
  /\ shown[lastId].text = StartedText(<<>>)

(***************************************************************************)
(* Claims about liveness, checked under SpecChain.                         *)
(***************************************************************************)
\* the generator of the cycle in progress raises at this step
GeneratorFails == gen.ended = "no" /\ gen'.ended \in {"timeout", "error"}

\* the cycle in progress ends at this step by raising
CycleRaises == CycleEnds /\ outcome'.result = "raised"

CompletesAddFlow ==
  /\ opLog.op = "update_mode_title"
  /\ opLog'.op = "add_or_edit_mode"

\* C23: the add_or_edit_mode that follows update_mode_title(t) adds one
\* mode, of title t, and changes no stored mode.
C23_AddFlowAdds ==
  [][CompletesAddFlow =>
       /\ \E id \in DOMAIN modes' \ DOMAIN modes :
            /\ DOMAIN modes' = DOMAIN modes \cup {id}
            /\ modes'[id].title = new_mode_title[1]
       /\ \A id \in DOMAIN modes : modes'[id] = modes[id]]_vars

\* this step is a whole add_or_edit_mode
AddOrEditModeStep ==
  /\ opLog'.op = "add_or_edit_mode"
  /\ outcome'.calls = outcome.calls + 1

\* C24: add_or_edit_mode with no mode being edited and no title pending
\* raises, before any transport call (no message is sent), and leaves the
\* modes, the current-mode reference and the entry state as they are.
C24_InvalidState ==
  [][(AddOrEditModeStep /\ editing_mode = NoMode /\ new_mode_title = <<>>) =>
       /\ outcome'.result = "raised"
       /\ UNCHANGED <<shown, lastId>>
       /\ UNCHANGED <<modes, current_mode_id, new_mode_title, editing_mode>>
       /\ modeLog'.made = modeLog.made]_vars

\* on a chat with one mode, the current one, the first operation was an
\* add_or_edit_mode with nothing pending: it raised and the mode is as before
C24_Witness ==
  /\ outcome.calls = 1
  /\ opLog.op = "add_or_edit_mode"
  /\ outcome.result = "raised"
  /\ modes = 1 :> [title |-> "A", prompt |-> "p"]
  /\ current_mode_id = 1
  /\ modeLog.made = 1

\* this add_or_edit_mode sends 'Mode updated.' (line 280)
ReportsModeUpdated ==
  /\ AddOrEditModeStep
  /\ lastId' = lastId + 1
  /\ shown'[lastId'].text = MODE_UPDATED

\* C26: when add_or_edit_mode reports 'Mode updated.', the mode that was
\* being edited is a stored mode.
C26_UpdatedModeIsStored ==
  [][ReportsModeUpdated => editing_mode \in DOMAIN modes']_vars

(***************************************************************************)
(* Claims about expired conversations, checked under SpecOps.              *)
(***************************************************************************)
\* conversation c has been expired: it is not current and a message of the
\* chat shows its expiry notice with the button that resumes it
Expired(c) ==
  /\ c \in DOMAIN all_conversations
  /\ current_conversation # c
  /\ \E msg \in DOMAIN shown : shown[msg].markup = ResumeMarkup(c)

\* C25: an expired conversation becomes the current one only at a step of
\* a resume of its id.
C25_OnlyResumeRevives ==
  [][\A c \in DOMAIN all_conversations :
       (Expired(c) /\ current_conversation' = c) =>
         (opLog.op = "resume" /\ opLog.target = c)]_vars

(***************************************************************************)
(* Claims about voice messages, checked under SpecAudio.                   *)
(***************************************************************************)
\* at this step handle_audio has its text: the edit to 'You said' succeeded
AudioTextShown ==
  /\ call.pc = "audio_said"
  /\ call' # call
  /\ shown'[call.sent_message_id].text = YouSaidText(USER_TEXT)

\* C27: once handle_audio has shown the recognised text, it goes on as
\* handle_message does, sending the placeholder of a completion cycle, and
\* does not raise.
C27_AudioRunsCycle ==
  [][AudioTextShown =>
       /\ call'.pc = "reply"
       /\ outcome'.result # "raised"]_vars

=============================================================================
